---- MODULE Spec2Model ----
(***************************************************************************)
(* Model of the go-file-splitter engine: a parsed Go file (declarations,   *)
(* comment groups with byte positions, imports), the extractors, the       *)
(* comment attribution predicates, the writers and the rewrite of the      *)
(* original file, for the three entry points                               *)
(*   SplitTestFiles       (test-only revision, hasRemainingContent flag),  *)
(*   SplitTestFunctions   (processTestFile + removeExtractedTests),        *)
(*   SplitPublicFunctions (processGoFile + updateOriginalFile).            *)
(* Go strings are sequences of one-character strings; token.Pos values are *)
(* integers; an AST node pointer is the pair <<parse, index>>.             *)
(***************************************************************************)
EXTENDS Integers, Sequences, FiniteSets, TLC

(***************************************************************************)
(* Bounds of the model.                                                    *)
(***************************************************************************)
\* Declarations (besides the import declaration) of a file with comments.
MaxDecls == 2

\* Comment groups of a file.
MaxComments == 1

\* Declarations (besides the import declaration) of a file without comments.
MaxPlainDecls == 3

\* Import specs of a file handed to the import resolvers.
MaxImports == 2

\* Declarations of a file handed to the import resolvers.
MaxImportDecls == 2

\* Declarations of a file of a directory handed to an entry point.
MaxBatchDecls == 2

\* Calls of the entry point on the same directory.
MaxRuns == 2

(***************************************************************************)
(* Characters and strings (package unicode, package strings).              *)
(***************************************************************************)
UpperChars == <<"A", "B", "C", "D", "E", "F", "G", "H", "I", "J", "K", "L", "M", "N", "O", "P", "Q", "R", "S", "T", "U", "V", "W", "X", "Y", "Z">>

LowerChars == <<"a", "b", "c", "d", "e", "f", "g", "h", "i", "j", "k", "l", "m", "n", "o", "p", "q", "r", "s", "t", "u", "v", "w", "x", "y", "z">>

Range(s) == {s[i] : i \in 1..Len(s)}

IsUpper(c) == c \in Range(UpperChars)

IsLower(c) == c \in Range(LowerChars)

ToLower(c) ==
    IF IsUpper(c) THEN LowerChars[CHOOSE i \in 1..26 : UpperChars[i] = c] ELSE c

ToUpper(c) ==
    IF IsLower(c) THEN UpperChars[CHOOSE i \in 1..26 : LowerChars[i] = c] ELSE c

StrToLower(s) == [i \in 1..Len(s) |-> ToLower(s[i])]

StrToUpper(s) == [i \in 1..Len(s) |-> ToUpper(s[i])]

HasPrefix(s, p) == Len(s) >= Len(p) /\ SubSeq(s, 1, Len(p)) = p

HasSuffix(s, p) == Len(s) >= Len(p) /\ SubSeq(s, Len(s) - Len(p) + 1, Len(s)) = p

TrimPrefix(s, p) == IF HasPrefix(s, p) THEN SubSeq(s, Len(p) + 1, Len(s)) ELSE s

RECURSIVE TrimLeft(_, _)
TrimLeft(s, c) ==
    IF s # <<>> /\ Head(s) = c THEN TrimLeft(Tail(s), c) ELSE s

Contains(s, p) ==
    \E i \in 1..(Len(s) + 1) : i + Len(p) - 1 <= Len(s) /\ SubSeq(s, i, i + Len(p) - 1) = p

Last(s) == s[Len(s)]

TrimSuffixGo(s) ==
    IF HasSuffix(s, <<".", "g", "o">>) THEN SubSeq(s, 1, Len(s) - 3) ELSE s

TestPrefix == <<"T", "e", "s", "t">>

BenchmarkPrefix == <<"B", "e", "n", "c", "h", "m", "a", "r", "k">>

ExamplePrefix == <<"E", "x", "a", "m", "p", "l", "e">>

(***************************************************************************)
(* Naming: identifier -> file stem.                                        *)
(***************************************************************************)
getCommonAbbreviations == <<
    <<"I", "D">>, <<"U", "U", "I", "D">>, <<"U", "R", "L">>, <<"U", "R", "I">>,
    <<"A", "P", "I">>, <<"H", "T", "T", "P">>, <<"H", "T", "T", "P", "S">>, <<"J", "S", "O", "N">>,
    <<"X", "M", "L">>, <<"C", "S", "V">>, <<"S", "Q", "L">>, <<"D", "B">>,
    <<"T", "C", "P">>, <<"U", "D", "P">>, <<"I", "P">>, <<"D", "N", "S">>,
    <<"S", "S", "H">>, <<"T", "L", "S">>, <<"S", "S", "L">>, <<"J", "W", "T">>,
    <<"A", "W", "S">>, <<"G", "C", "P">>, <<"C", "P", "U">>, <<"G", "P", "U">>,
    <<"R", "A", "M">>, <<"R", "O", "M">>, <<"I", "O">>, <<"E", "O", "F">>,
    <<"T", "T", "L">>, <<"C", "D", "N">>, <<"H", "T", "M", "L">>, <<"C", "S", "S">>,
    <<"J", "S">>, <<"M", "D", "5">>, <<"S", "H", "A">>, <<"R", "S", "A">>,
    <<"A", "E", "S">>, <<"U", "T", "F">>, <<"A", "S", "C", "I", "I">>, <<"C", "R", "U", "D">>,
    <<"R", "E", "S", "T">>, <<"R", "P", "C">>, <<"G", "R", "P", "C">>, <<"M", "Q", "T", "T">>,
    <<"A", "M", "Q", "P">>, <<"S", "M", "T", "P">>, <<"I", "M", "A", "P">>, <<"P", "O", "P">>,
    <<"S", "D", "K">>, <<"C", "L", "I">>, <<"G", "U", "I">>, <<"U", "I">>,
    <<"U", "X">>, <<"O", "S">>, <<"V", "M">>, <<"P", "D", "F">>,
    <<"P", "N", "G">>, <<"J", "P", "G">>, <<"G", "I", "F">>
>>

\* The first abbreviation of the list that matches runes at index i (1-based)
\* on a word boundary, with its length; <<>> and 0 when none does.
matchesAbbreviation(runes, i) ==
    LET abbrs == getCommonAbbreviations
        atWordBoundary(abbr) ==
            \/ i - 1 + Len(abbr) = Len(runes)
            \/ /\ i - 1 + Len(abbr) < Len(runes)
               /\ IsUpper(runes[i + Len(abbr)])
        hit(k) ==
            /\ ~(i - 1 + Len(abbrs[k]) > Len(runes))
            /\ StrToUpper(SubSeq(runes, i, i - 1 + Len(abbrs[k]))) = abbrs[k]
            /\ atWordBoundary(abbrs[k])
        hits == {k \in 1..Len(abbrs) : hit(k)}
    IN  IF hits = {}
        THEN [abbr |-> <<>>, length |-> 0]
        ELSE LET k == CHOOSE j \in hits : \A h \in hits : j <= h
             IN  [abbr |-> abbrs[k], length |-> Len(abbrs[k])]

shouldAddUnderscore(runes, i, result) ==
    IF i = 1 \/ ~IsUpper(runes[i]) THEN FALSE
    ELSE IF Len(result) = 0 \/ Last(result) = "_" THEN FALSE
    ELSE IF i + 1 <= Len(runes) /\ IsLower(runes[i + 1]) THEN TRUE
    ELSE IF i > 1 /\ IsLower(runes[i - 1]) THEN TRUE
    ELSE FALSE

\* The conversion loop shared by functionNameToSnakeCase and testNameToSnakeCase.
RECURSIVE snakeLoop(_, _, _)
snakeLoop(runes, i, result) ==
    IF i > Len(runes) THEN result
    ELSE LET m == matchesAbbreviation(runes, i)
         IN  IF m.abbr # <<>>
             THEN LET r1 == IF i > 1 /\ Len(result) > 0 /\ Last(result) # "_"
                            THEN Append(result, "_") ELSE result
                  IN  snakeLoop(runes, i + m.length, r1 \o StrToLower(m.abbr))
             ELSE LET r1 == IF shouldAddUnderscore(runes, i, result)
                            THEN Append(result, "_") ELSE result
                  IN  snakeLoop(runes, i + 1, Append(r1, ToLower(runes[i])))

isWholeAbbreviation(name) ==
    \E k \in 1..Len(getCommonAbbreviations) : StrToUpper(name) = getCommonAbbreviations[k]

functionNameToSnakeCase(name) ==
    IF isWholeAbbreviation(name) THEN StrToLower(name)
    ELSE LET resultStr == snakeLoop(name, 1, <<>>)
         IN  IF resultStr = <<>> THEN <<"f", "u", "n", "c">>
             ELSE TrimLeft(resultStr, "_")

testNameToSnakeCase(name) ==
    IF ~HasPrefix(name, TestPrefix) THEN StrToLower(name)
    ELSE LET n == TrimLeft(TrimPrefix(name, TestPrefix), "_")
         IN  IF n = <<>> THEN <<"t", "e", "s", "t">>
             ELSE IF isWholeAbbreviation(n) THEN StrToLower(n)
             ELSE LET resultStr == snakeLoop(n, 1, <<>>)
                  IN  IF resultStr = <<>> THEN <<"t", "e", "s", "t">> ELSE resultStr

\* testNameToSnakeCase of the test-only revision: no abbreviation table.
RECURSIVE snakeLoop_v1(_, _, _)
snakeLoop_v1(name, i, result) ==
    IF i > Len(name) THEN result
    ELSE LET r1 == IF i > 1 /\ IsUpper(name[i])
                   THEN IF i + 1 <= Len(name) /\ IsLower(name[i + 1])
                        THEN Append(result, "_")
                        ELSE IF IsLower(name[i - 1])
                             THEN Append(result, "_") ELSE result
                   ELSE result
         IN  snakeLoop_v1(name, i + 1, Append(r1, ToLower(name[i])))

testNameToSnakeCase_v1(name) ==
    IF ~HasPrefix(name, TestPrefix) THEN StrToLower(name)
    ELSE LET n == TrimLeft(TrimPrefix(name, TestPrefix), "_")
         IN  IF n = <<>> THEN <<"t", "e", "s", "t">>
             ELSE LET resultStr == snakeLoop_v1(n, 1, <<>>)
                  IN  IF resultStr = <<>> THEN <<"t", "e", "s", "t">> ELSE resultStr

TestGoSuffix == <<"_", "t", "e", "s", "t", ".", "g", "o">>

GoSuffix == <<".", "g", "o">>

SplittedPrefix == <<"s", "p", "l", "i", "t", "t", "e", "d", "_">>

CommonGo == <<"c", "o", "m", "m", "o", "n", ".", "g", "o">>

(***************************************************************************)
(* The parsed file (go/ast): declarations in source order, comment groups  *)
(* in source order, byte positions.  A declaration is a FuncDecl           *)
(* (kind "func"; recv is "none", "ident" (r T), "star" (r *T), "index"     *)
(* (r T[K]) or "star_index" (r *T[K]); recvType is the name T)             *)
(* or a GenDecl (kind "gen"; tok import/const/var/type; specs).  lbrace =  *)
(* rbrace = 0 stands for Body == nil.  doc is the Doc comment group, Nil   *)
(* when there is none.  refs is the set of identifiers ast.Inspect meets   *)
(* in the subtree as the operand of a selector expression, idents the set  *)
(* it meets as call target or unresolved identifier.                       *)
(***************************************************************************)
NoName == <<>>

NoAlias == <<>>

Nil == [pos |-> 0, end |-> 0]

S_testing == <<"t", "e", "s", "t", "i", "n", "g">>

S_fmt == <<"f", "m", "t">>

S_t == <<"t">>

S_b == <<"b">>

S_s == <<"s">>

S_assert == <<"a", "s", "s", "e", "r", "t">>

S_require == <<"r", "e", "q", "u", "i", "r", "e">>

S_suite == <<"s", "u", "i", "t", "e">>

S_testify == <<"t", "e", "s", "t", "i", "f", "y">>

S_testify_assert == <<"t", "e", "s", "t", "i", "f", "y", "/", "a", "s", "s", "e", "r", "t">>

S_testify_require == <<"t", "e", "s", "t", "i", "f", "y", "/", "r", "e", "q", "u", "i", "r", "e">>

S_testify_suite == <<"t", "e", "s", "t", "i", "f", "y", "/", "s", "u", "i", "t", "e">>

FuncT(name, recv, refs) ==
    [kind |-> "func", name |-> name, recv |-> recv, tok |-> "func",
     recvType |-> IF recv = "none" THEN NoName ELSE S_suite,
     specs |-> <<>>, refs |-> refs, idents |-> {}]

\* A method with the receiver shape recv over the type named recvType.
MethodT(name, recv, recvType) == [FuncT(name, recv, {}) EXCEPT !.recvType = recvType]

ValueSpec(names) == [spec |-> "value", names |-> names, path |-> <<>>, alias |-> NoAlias]

TypeSpec(name) == [spec |-> "type", names |-> <<name>>, path |-> <<>>, alias |-> NoAlias]

ImportSpec(path, alias) == [spec |-> "import", names |-> <<>>, path |-> path, alias |-> alias]

GenT(tok, specs, refs) ==
    [kind |-> "gen", name |-> NoName, recv |-> "none", tok |-> tok,
     recvType |-> NoName,
     specs |-> specs, refs |-> refs, idents |-> {}]

ImportDecl ==
    GenT("import", <<ImportSpec(S_testing, NoAlias), ImportSpec(S_fmt, NoAlias)>>, {})

\* Declarations a _test.go file is built from.
TestFileDecls == {
    FuncT(<<"T", "e", "s", "t", "A">>, "none", {S_testing, S_t, S_fmt}),
    FuncT(<<"T", "e", "s", "t", "_", "B">>, "none", {S_testing, S_t}),
    FuncT(<<"T", "e", "s", "t">>, "none", {S_testing}),
    FuncT(<<"T", "e", "s", "t", "_">>, "none", {S_testing}),
    FuncT(<<"T", "e", "s", "t", "_", "a">>, "none", {S_testing}),
    FuncT(<<"T", "e", "s", "t", "1">>, "none", {S_testing}),
    FuncT(<<"T", "e", "s", "t", "A">>, "star", {S_s}),
    FuncT(<<"h", "e", "l", "p">>, "none", {S_fmt}),
    FuncT(<<"B", "e", "n", "c", "h", "m", "a", "r", "k", "A">>, "none", {S_testing, S_b}),
    GenT("type", <<TypeSpec(<<"s", "u", "i", "t", "e">>)>>, {}),
    GenT("const", <<ValueSpec(<<<<"k">>>>)>>, {})
}

\* Declarations of a .go file with methods: receivers (r T), (r *u),
\* (r T[K]) and (r *T[K]), public and private method names.
MethodFileDecls == {
    MethodT(<<"G", "e", "t">>, "ident", <<"T">>),
    MethodT(<<"G", "e", "t">>, "star", <<"u">>),
    MethodT(<<"s", "e", "t">>, "star", <<"T">>),
    MethodT(<<"L", "e", "n">>, "index", <<"T">>),
    MethodT(<<"C", "a", "p">>, "star_index", <<"T">>),
    FuncT(<<"F", "o", "o">>, "none", {}),
    GenT("type", <<TypeSpec(<<"T">>)>>, {}),
    GenT("type", <<TypeSpec(<<"u">>)>>, {}),
    GenT("const", <<ValueSpec(<<<<"B">>>>), ValueSpec(<<<<"c">>>>)>>, {})
}

S_tt == <<"t", "t">>

S_ta == <<"t", "a">>

\* Import specs of the files handed to the import resolvers: "testing",
\* tt "testing", "fmt", "x/testify/assert", ta "x/testify/assert",
\* "x/testify/require" and "y/assert".
PoolImports == {
    ImportSpec(S_testing, NoAlias),
    ImportSpec(S_testing, S_tt),
    ImportSpec(S_fmt, NoAlias),
    ImportSpec(<<"x", "/">> \o S_testify_assert, NoAlias),
    ImportSpec(<<"x", "/">> \o S_testify_assert, S_ta),
    ImportSpec(<<"x", "/">> \o S_testify_require, NoAlias),
    ImportSpec(<<"y", "/">> \o S_assert, NoAlias)
}

\* Declarations of the files handed to the import resolvers; refs are the
\* names the declaration uses as operand of a selector.
ImportFnDecls == {
    FuncT(<<"T", "e", "s", "t", "A">>, "none", {S_testing, S_t, S_fmt}),
    FuncT(<<"T", "e", "s", "t", "N">>, "none", {}),
    FuncT(<<"T", "e", "s", "t", "R">>, "none", {S_tt, S_t, S_assert}),
    FuncT(<<"B", "e", "n", "c", "h", "m", "a", "r", "k", "A">>, "none", {}),
    FuncT(<<"E", "x", "a", "m", "p", "l", "e", "A">>, "none", {S_fmt}),
    FuncT(<<"h", "e", "l", "p">>, "none", {S_ta}),
    FuncT(<<"c", "h", "e", "c", "k">>, "none", {S_require}),
    GenT("var", <<ValueSpec(<<<<"v">>>>)>>, {S_fmt})
}

\* Declarations a non-test .go file is built from.
GoFileDecls == {
    FuncT(<<"F", "o", "o">>, "none", {S_fmt}),
    FuncT(<<"B", "a", "r">>, "none", {}),
    FuncT(<<"f", "o", "o">>, "none", {S_fmt}),
    FuncT(<<"F", "o", "o">>, "star", {}),
    FuncT(<<"r", "u", "n">>, "ident", {}),
    GenT("const", <<ValueSpec(<<<<"A">>>>)>>, {}),
    GenT("const", <<ValueSpec(<<<<"B">>>>), ValueSpec(<<<<"c">>>>)>>, {}),
    GenT("var", <<ValueSpec(<<<<"v">>>>)>>, {S_fmt}),
    GenT("type", <<TypeSpec(<<"T">>)>>, {}),
    GenT("type", <<TypeSpec(<<"u">>)>>, {})
}

\* token.Pos(50*80): the proximity bound of the comment attribution.
MaxGap == 50 * 80

\* Length of a comment group, and of a declaration head, in bytes.
CommentLen == 3

HeadLen == 5

\* End of the package clause: the first byte a declaration can use.
PackageEnd == 10

\* Where a free-floating comment sits between the end of the previous
\* declaration and the start of the next one: <<bytes after the previous
\* End(), bytes before the next declaration block>>.
Gap(kind) ==
    CASE kind = "near_prev" -> <<1, 7>>
      [] kind = "near_next" -> <<7, 2>>
      [] kind = "equal"     -> <<2, 3>>
      [] kind = "far"       -> <<MaxGap + 5, MaxGap>>

FreeKinds == {"near_prev", "near_next", "equal", "far"}

SlotKinds == {"doc", "inline"} \cup FreeKinds

\* The comment slots of a file of n declarations; slot <<n + 1, "near_prev">>
\* is a comment after the last declaration.
Slots(n) == ((1..n) \X SlotKinds) \cup {<<n + 1, "near_prev">>}

FreeAt(cs, k) == {c \in cs : c[1] = k /\ c[2] \in FreeKinds}

RECURSIVE SubsetsUpTo(_, _)
SubsetsUpTo(S, k) ==
    IF k = 0 THEN {{}}
    ELSE LET P == SubsetsUpTo(S, k - 1)
         IN  P \cup {p \cup {x} : p \in P, x \in S}

CommentLayouts(n) ==
    {cs \in SubsetsUpTo(Slots(n), MaxComments) : \A k \in 1..(n + 1) : Cardinality(FreeAt(cs, k)) <= 1}

\* Layout of declaration k of ts after a file prefix f that ends at cur.
RECURSIVE Layout(_, _, _, _, _)
Layout(ts, cs, k, f, cur) ==
    IF k > Len(ts)
    THEN IF <<k, "near_prev">> \in cs
         THEN [f EXCEPT !.comments = Append(@, [pos |-> cur + 1, end |-> cur + 1 + CommentLen])]
         ELSE f
    ELSE
      LET free   == FreeAt(cs, k)
          g      == IF free = {} THEN <<0, 2>> ELSE Gap((CHOOSE c \in free : TRUE)[2])
          fpos   == cur + g[1]
          fend   == fpos + CommentLen
          block  == IF free = {} THEN cur + 2 ELSE fend + g[2]
          c1     == IF free = {} THEN f.comments
                    ELSE Append(f.comments, [pos |-> fpos, end |-> fend])
          hasDoc == <<k, "doc">> \in cs
          c2     == IF hasDoc THEN Append(c1, [pos |-> block, end |-> block + CommentLen]) ELSE c1
          pos    == IF hasDoc THEN block + CommentLen + 1 ELSE block
          open   == pos + HeadLen
          hasIn  == <<k, "inline">> \in cs
          c3     == IF hasIn THEN Append(c2, [pos |-> open + 2, end |-> open + 2 + CommentLen]) ELSE c2
          close  == IF hasIn THEN open + 2 + CommentLen + 1 ELSE open + 1
          isFn   == ts[k].kind = "func"
          d      == [kind |-> ts[k].kind, name |-> ts[k].name, recv |-> ts[k].recv,
                     tok |-> ts[k].tok, specs |-> ts[k].specs, refs |-> ts[k].refs,
                     idents |-> ts[k].idents, recvType |-> ts[k].recvType,
                     pos |-> pos, end |-> close + 1,
                     lbrace |-> IF isFn THEN open ELSE 0,
                     rbrace |-> IF isFn THEN close ELSE 0,
                     doc |-> IF hasDoc THEN [pos |-> block, end |-> block + CommentLen] ELSE Nil]
      IN  Layout(ts, cs, k + 1, [decls |-> Append(f.decls, d), comments |-> c3], close + 1)

EmptyFile == [decls |-> <<>>, comments |-> <<>>]

\* parser.ParseFile of the text sketched by the declarations ts and the
\* comment slots cs.
ParseFile(ts, cs) == Layout(ts, cs, 1, EmptyFile, PackageEnd)

\* Function names (no receiver) are unique in a file, and so are methods.
WellFormed(ts) ==
    \A i, j \in 1..Len(ts) :
        (i # j /\ ts[i].kind = "func" /\ ts[j].kind = "func" /\ ts[i].name = ts[j].name)
            => ts[i].recv # ts[j].recv

RECURSIVE SeqsUpTo(_, _)
SeqsUpTo(S, n) ==
    IF n = 0 THEN {<<>>}
    ELSE LET P == SeqsUpTo(S, n - 1)
         IN  P \cup {Append(p, x) : p \in {q \in P : Len(q) = n - 1}, x \in S}

DeclSeqs(D, n) == {t \in SeqsUpTo(D, n) : t # <<>> /\ WellFormed(t)}

\* The files of the model: an optional leading import declaration, then
\* either up to MaxDecls declarations with at most MaxComments comment
\* groups, or up to MaxPlainDecls declarations and no comment.
Sketches(D) ==
    ({<<>>, <<ImportDecl>>} \X {x \in DeclSeqs(D, MaxDecls) \X CommentLayouts(MaxDecls) :
                                  \A c \in x[2] : c[1] <= Len(x[1]) + 1})
    \cup ({<<>>, <<ImportDecl>>} \X (DeclSeqs(D, MaxPlainDecls) \X {{}}))

Files(D) ==
    {ParseFile(x[1] \o x[2][1], {<<c[1] + Len(x[1]), c[2]>> : c \in x[2][2]}) : x \in Sketches(D)}

(***************************************************************************)
(* Comment attribution.                                                    *)
(***************************************************************************)
Indices(q) == [i \in 1..Len(q) |-> i]

\* cg lies inside the body of the function declaration d.
InBody(cg, d) == d.lbrace # 0 /\ cg.pos >= d.lbrace /\ cg.end <= d.rbrace

\* isFunctionSpecificComment without the test of the end of the comment
\* against the start of the function.
isFunctionSpecificComment_noEndTest(cg, k, allDecls) ==
    LET fn == allDecls[k]
        prevDeclEnd ==
            IF k = 1 THEN 0
            ELSE IF allDecls[k - 1].kind = "func" /\ allDecls[k - 1].lbrace # 0
                 THEN allDecls[k - 1].rbrace
                 ELSE allDecls[k - 1].end
    IN  IF InBody(cg, fn) THEN FALSE
        ELSE IF \E j \in 1..Len(allDecls) :
                    j # k /\ allDecls[j].kind = "func" /\ InBody(cg, allDecls[j])
        THEN FALSE
        ELSE IF k > 1 /\ cg.pos - prevDeclEnd < fn.pos - cg.end THEN FALSE
        ELSE cg.pos > prevDeclEnd /\ fn.pos - cg.end < MaxGap

\* isFunctionSpecificComment without the look at the previous declaration.
isFunctionSpecificComment_noPrev(cg, k, allDecls) ==
    LET fn == allDecls[k]
    IN  IF InBody(cg, fn) THEN FALSE
        ELSE IF \E j \in 1..Len(allDecls) :
                    j # k /\ allDecls[j].kind = "func" /\ InBody(cg, allDecls[j])
        THEN FALSE
        ELSE IF cg.end >= fn.pos THEN FALSE
        ELSE fn.pos - cg.end < MaxGap

\* fn is allDecls[k]: the pointer comparison decl == fn is the index k.
isFunctionSpecificComment(cg, k, allDecls) ==
    LET fn == allDecls[k]
        prevDeclEnd ==
            IF k = 1 THEN 0
            ELSE IF allDecls[k - 1].kind = "func" /\ allDecls[k - 1].lbrace # 0
                 THEN allDecls[k - 1].rbrace
                 ELSE allDecls[k - 1].end
    IN  IF InBody(cg, fn) THEN FALSE
        ELSE IF \E j \in 1..Len(allDecls) :
                    j # k /\ allDecls[j].kind = "func" /\ InBody(cg, allDecls[j])
        THEN FALSE
        ELSE IF cg.end >= fn.pos THEN FALSE
        ELSE IF k > 1 /\ cg.pos - prevDeclEnd < fn.pos - cg.end THEN FALSE
        ELSE cg.pos > prevDeclEnd /\ fn.pos - cg.end < MaxGap

hasIntermediateDecl(cg, fn, decls) ==
    \E j \in 1..Len(decls) : decls[j].pos > cg.end /\ decls[j].pos < fn.pos

\* extractedNames is the set of the keys of the Go map.
shouldKeepComment(cg, node, extractedNames) ==
    \A j \in 1..Len(node.decls) :
        LET fn == node.decls[j]
        IN  (fn.kind = "func" /\ fn.name \in extractedNames) =>
                /\ fn.doc # cg
                /\ ~(cg.end + 1 <= fn.pos /\ ~hasIntermediateDecl(cg, fn, node.decls))

filterOrphanedComments(node, extractedNames) ==
    LET keep(cg) == shouldKeepComment(cg, node, extractedNames)
    IN  SelectSeq(node.comments, keep)

(***************************************************************************)
(* Import usage.                                                           *)
(***************************************************************************)
RECURSIVE Flatten(_)
Flatten(qs) == IF qs = <<>> THEN <<>> ELSE Head(qs) \o Flatten(Tail(qs))

\* node.Imports: the import specs of the file, in source order.
Imports(node) ==
    LET isImport(d) == d.kind = "gen" /\ d.tok = "import"
        imps == SelectSeq(node.decls, isImport)
    IN  Flatten([i \in 1..Len(imps) |-> imps[i].specs])

\* strings.Split(importPath, "/") and its last part.
RECURSIVE LastPart(_)
LastPart(path) ==
    IF \E i \in 1..Len(path) : path[i] = "/"
    THEN LastPart(SubSeq(path, (CHOOSE i \in 1..Len(path) : path[i] = "/" /\ \A j \in 1..(i - 1) : path[j] # "/") + 1, Len(path)))
    ELSE path

pkgNameOf(imp) == IF imp.alias # NoAlias THEN imp.alias ELSE LastPart(imp.path)

\* The test of findUsedImports without the Benchmark prefix.
isTestStyle_onlyTest(name) == HasPrefix(name, TestPrefix)

isTestStyle(name) == HasPrefix(name, TestPrefix) \/ HasPrefix(name, BenchmarkPrefix)

findUsedImports(fn, allImports) ==
    LET usedPackages == fn.refs \cup fn.idents
                        \cup (IF isTestStyle(fn.name) THEN {S_testing} ELSE {})
        used(imp) ==
            \/ imp.path = S_testing /\ S_testing \in usedPackages
            \/ pkgNameOf(imp) \in usedPackages
            \/ Contains(imp.path, S_testify_assert) /\ S_assert \in usedPackages
            \/ Contains(imp.path, S_testify_require) /\ S_require \in usedPackages
            \/ Contains(imp.path, S_testify_suite) /\ S_suite \in usedPackages
    IN  SelectSeq(allImports, used)

findUsedImports_v1(fn, allImports) ==
    LET usedPackages == {S_testing} \cup fn.refs \cup fn.idents
        used(imp) ==
            \/ imp.path = S_testing /\ S_testing \in usedPackages
            \/ pkgNameOf(imp) \in usedPackages
            \/ Contains(imp.path, S_testify_assert) /\ S_assert \in usedPackages
            \/ Contains(imp.path, S_testify_require) /\ S_require \in usedPackages
            \/ Contains(imp.path, S_testify_suite) /\ S_suite \in usedPackages
    IN  SelectSeq(allImports, used)

\* findUsedImportsInDecls whose testify tests are ifs of their own instead
\* of else branches: an import can be appended more than once.
findUsedImportsInDecls_noElse(decls, allImports) ==
    LET hasTest == \E j \in 1..Len(decls) :
                      /\ decls[j].kind = "func"
                      /\ \/ HasPrefix(decls[j].name, TestPrefix)
                         \/ HasPrefix(decls[j].name, BenchmarkPrefix)
                         \/ HasPrefix(decls[j].name, ExamplePrefix)
        usedPackages == (IF hasTest THEN {S_testing} ELSE {})
                        \cup UNION {decls[j].refs \cup decls[j].idents : j \in 1..Len(decls)}
        byName(imp) ==
            \/ imp.path = S_testing /\ S_testing \in usedPackages
            \/ pkgNameOf(imp) \in usedPackages
        byTestify(imp) ==
            /\ Contains(imp.path, S_testify)
            /\ {S_assert, S_require, S_suite} \cap usedPackages # {}
    IN  Flatten([j \in 1..Len(allImports) |->
                    (IF byName(allImports[j]) THEN <<allImports[j]>> ELSE <<>>)
                    \o (IF byTestify(allImports[j]) THEN <<allImports[j]>> ELSE <<>>)])

findUsedImportsInDecls(decls, allImports) ==
    LET hasTest == \E j \in 1..Len(decls) :
                      /\ decls[j].kind = "func"
                      /\ \/ HasPrefix(decls[j].name, TestPrefix)
                         \/ HasPrefix(decls[j].name, BenchmarkPrefix)
                         \/ HasPrefix(decls[j].name, ExamplePrefix)
        usedPackages == (IF hasTest THEN {S_testing} ELSE {})
                        \cup UNION {decls[j].refs \cup decls[j].idents : j \in 1..Len(decls)}
        used(imp) ==
            \/ imp.path = S_testing /\ S_testing \in usedPackages
            \/ pkgNameOf(imp) \in usedPackages
            \/ Contains(imp.path, S_testify) /\ S_assert \in usedPackages
            \/ Contains(imp.path, S_testify) /\ S_require \in usedPackages
            \/ Contains(imp.path, S_testify) /\ S_suite \in usedPackages
    IN  SelectSeq(allImports, used)

\* findUsedImports of the revision that selects by local name only.
findUsedImports_byName(fn, allImports) ==
    LET usedPackages == fn.refs \cup fn.idents
                        \cup (IF isTestStyle(fn.name) THEN {S_testing} ELSE {})
        used(imp) == pkgNameOf(imp) \in usedPackages
    IN  SelectSeq(allImports, used)

\* findUsedImportsInDecls of the revision that selects by local name only.
findUsedImportsInDecls_byName(decls, allImports) ==
    LET hasTest == \E j \in 1..Len(decls) :
                      /\ decls[j].kind = "func"
                      /\ \/ HasPrefix(decls[j].name, TestPrefix)
                         \/ HasPrefix(decls[j].name, BenchmarkPrefix)
                         \/ HasPrefix(decls[j].name, ExamplePrefix)
        usedPackages == (IF hasTest THEN {S_testing} ELSE {})
                        \cup UNION {decls[j].refs \cup decls[j].idents : j \in 1..Len(decls)}
        used(imp) == pkgNameOf(imp) \in usedPackages
    IN  SelectSeq(allImports, used)

\* &ast.GenDecl{Tok: token.IMPORT, Specs: usedImports}: a node without position.
NewImportDecl(usedImports) ==
    [kind |-> "gen", name |-> NoName, recv |-> "none", tok |-> "import",
     specs |-> usedImports, refs |-> {}, idents |-> {}, recvType |-> NoName,
     pos |-> 0, end |-> 0, lbrace |-> 0, rbrace |-> 0, doc |-> Nil]

WithImports(usedImports, decls) ==
    IF Len(usedImports) > 0 THEN <<NewImportDecl(usedImports)>> \o decls ELSE decls

(***************************************************************************)
(* Extractors.                                                             *)
(***************************************************************************)
\* The owned comments of the function node.decls[k].
StandaloneOf(node, k) ==
    LET fn == node.decls[k]
        own(cg) == cg # fn.doc /\ ~InBody(cg, fn)
                   /\ isFunctionSpecificComment(cg, k, node.decls)
    IN  SelectSeq(node.comments, own)

InlineOf(node, k) ==
    LET fn == node.decls[k]
        in(cg) == cg # fn.doc /\ InBody(cg, fn)
    IN  SelectSeq(node.comments, in)

Unit(node, k, standalone, inline) ==
    [Name |-> node.decls[k].name, FuncDecl |-> node.decls[k], index |-> k,
     Comments |-> node.decls[k].doc, StandaloneComments |-> standalone,
     InlineComments |-> inline]

\* The name test of extractTestFunctions: "Test", then any underscores, then
\* something that does not start with a lowercase letter.
isSplitTestName_noTrim(name) ==
    /\ HasPrefix(name, TestPrefix)
    /\ LET nameAfterTest == TrimPrefix(name, TestPrefix)
       IN  ~(Len(nameAfterTest) = 0 \/ IsLower(nameAfterTest[1]))

isSplitTestName(name) ==
    /\ HasPrefix(name, TestPrefix)
    /\ LET nameAfterTest == TrimLeft(TrimPrefix(name, TestPrefix), "_")
       IN  ~(Len(nameAfterTest) = 0 \/ IsLower(nameAfterTest[1]))

extractTestFunctions(node) ==
    LET sel(k) == /\ node.decls[k].kind = "func"
                  /\ node.decls[k].recv = "none"
                  /\ isSplitTestName(node.decls[k].name)
        ks == SelectSeq(Indices(node.decls), sel)
    IN  [j \in 1..Len(ks) |-> Unit(node, ks[j], StandaloneOf(node, ks[j]), InlineOf(node, ks[j]))]

extractPublicFunctions(node) ==
    LET sel(k) == /\ node.decls[k].kind = "func"
                  /\ node.decls[k].recv = "none"
                  /\ IsUpper(node.decls[k].name[1])
        ks == SelectSeq(Indices(node.decls), sel)
    IN  [j \in 1..Len(ks) |-> Unit(node, ks[j], StandaloneOf(node, ks[j]), InlineOf(node, ks[j]))]

\* hasPublic of extractPublicDeclarations: only ValueSpecs are looked at.
hasPublicValue(d) ==
    \E i \in 1..Len(d.specs) :
        /\ d.specs[i].spec = "value"
        /\ \E n \in 1..Len(d.specs[i].names) : IsUpper(d.specs[i].names[n][1])

\* A PublicDeclaration holds the pointer of its GenDecl: <<parse, index>>.
extractPublicDeclarations(node, parse) ==
    LET sel(k) == /\ node.decls[k].kind = "gen"
                  /\ node.decls[k].tok # "import"
                  /\ hasPublicValue(node.decls[k])
        ks == SelectSeq(Indices(node.decls), sel)
    IN  [j \in 1..Len(ks) |-> [GenDecl |-> node.decls[ks[j]], ptr |-> <<parse, ks[j]>>,
                               Comments |-> node.decls[ks[j]].doc]]

\* hasPublic of extractPublicDeclarations of extractor.go: ValueSpecs and
\* TypeSpecs are looked at.
hasPublicValueOrType(d) ==
    \E m \in 1..Len(d.specs) :
        \/ /\ d.specs[m].spec = "value"
           /\ \E n \in 1..Len(d.specs[m].names) : IsUpper(d.specs[m].names[n][1])
        \/ /\ d.specs[m].spec = "type"
           /\ IsUpper(d.specs[m].names[1][1])

extractPublicDeclarations_withTypes(node, parse) ==
    LET sel(k) == /\ node.decls[k].kind = "gen"
                  /\ node.decls[k].tok # "import"
                  /\ hasPublicValueOrType(node.decls[k])
        ks == SelectSeq(Indices(node.decls), sel)
    IN  [j \in 1..Len(ks) |-> [GenDecl |-> node.decls[ks[j]], ptr |-> <<parse, ks[j]>>,
                               Comments |-> node.decls[ks[j]].doc]]

\* getReceiverTypeName that takes the name out of every receiver shape.
getReceiverTypeName_anyShape(fn) ==
    IF fn.recv = "none" THEN <<>> ELSE fn.recvType

\* The name of an identifier or of a pointer to an identifier, "" otherwise.
getReceiverTypeName(fn) ==
    IF fn.recv = "none" THEN <<>>
    ELSE IF fn.recv = "ident" THEN fn.recvType
    ELSE IF fn.recv = "star" THEN fn.recvType
    ELSE <<>>

extractPublicMethods(node) ==
    LET sel(k) == /\ node.decls[k].kind = "func"
                  /\ node.decls[k].recv # "none"
                  /\ IsUpper(node.decls[k].name[1])
                  /\ getReceiverTypeName(node.decls[k]) # <<>>
        ks == SelectSeq(Indices(node.decls), sel)
    IN  [j \in 1..Len(ks) |->
            [Name |-> node.decls[ks[j]].name,
             ReceiverType |-> getReceiverTypeName(node.decls[ks[j]]),
             FuncDecl |-> node.decls[ks[j]], index |-> ks[j],
             Comments |-> node.decls[ks[j]].doc,
             StandaloneComments |-> StandaloneOf(node, ks[j]),
             InlineComments |-> InlineOf(node, ks[j])]]

\* Standalone comments of the test-only revision: before the function, no
\* declaration starting in between, within the proximity bound.
StandaloneOf_v1(node, k) ==
    LET fn == node.decls[k]
        own(cg) ==
            /\ cg # fn.doc
            /\ ~\E j \in 1..Len(node.decls) :
                    j # k /\ node.decls[j].kind = "func" /\ InBody(cg, node.decls[j])
            /\ cg.end < fn.pos
            /\ ~\E j \in 1..Len(node.decls) :
                    node.decls[j].pos > cg.end /\ node.decls[j].pos < fn.pos
            /\ fn.pos - cg.end < MaxGap
    IN  SelectSeq(node.comments, own)

\* extractTestFunctions of the test-only revision with a skipped Test
\* function that does not set hasRemainingContent.
extractTestFunctions_v1_noFlag(node) ==
    LET d(k) == node.decls[k]
        sel(k) == d(k).kind = "func" /\ d(k).recv = "none" /\ isSplitTestName(d(k).name)
        ks == SelectSeq(Indices(node.decls), sel)
        remains(k) ==
            IF d(k).kind # "func" THEN TRUE
            ELSE IF ~HasPrefix(d(k).name, TestPrefix) \/ d(k).recv # "none"
                 THEN d(k).recv = "none"
                 ELSE FALSE
    IN  [tests |-> [j \in 1..Len(ks) |-> Unit(node, ks[j], StandaloneOf_v1(node, ks[j]), <<>>)],
         hasRemainingContent |-> \E k \in 1..Len(node.decls) : remains(k)]

extractTestFunctions_v1(node) ==
    LET d(k) == node.decls[k]
        sel(k) == d(k).kind = "func" /\ d(k).recv = "none" /\ isSplitTestName(d(k).name)
        ks == SelectSeq(Indices(node.decls), sel)
        remains(k) ==
            IF d(k).kind # "func" THEN TRUE
            ELSE IF ~HasPrefix(d(k).name, TestPrefix) \/ d(k).recv # "none"
                 THEN d(k).recv = "none"
                 ELSE ~isSplitTestName(d(k).name)
    IN  [tests |-> [j \in 1..Len(ks) |-> Unit(node, ks[j], StandaloneOf_v1(node, ks[j]), <<>>)],
         hasRemainingContent |-> \E k \in 1..Len(node.decls) : remains(k)]

(***************************************************************************)
(* The file system: a function from the base names of the files of the     *)
(* directory to their parsed content.                                      *)
(***************************************************************************)
WriteFile(d, name, content) ==
    [n \in DOMAIN d \cup {name} |-> IF n = name THEN content ELSE d[n]]

Remove(d, name) == [n \in DOMAIN d \ {name} |-> d[n]]

Exists(d, name) == name \in DOMAIN d

(***************************************************************************)
(* Writers: the ast.File handed to format.Node and os.WriteFile.           *)
(***************************************************************************)
OptComment(c) == IF c # Nil THEN <<c>> ELSE <<>>

writeTestFile_v1(d, filename, test, imports) ==
    WriteFile(d, filename,
        [decls |-> WithImports(findUsedImports_v1(test.FuncDecl, imports), <<test.FuncDecl>>),
         comments |-> test.StandaloneComments])

writeTestFunction(d, filename, test, imports) ==
    WriteFile(d, filename,
        [decls |-> WithImports(findUsedImports(test.FuncDecl, imports), <<test.FuncDecl>>),
         comments |-> OptComment(test.Comments) \o test.StandaloneComments \o test.InlineComments])

writePublicFunction(d, filename, fn, imports) ==
    WriteFile(d, filename,
        [decls |-> WithImports(findUsedImports(fn.FuncDecl, imports), <<fn.FuncDecl>>),
         comments |-> OptComment(fn.Comments) \o fn.StandaloneComments \o fn.InlineComments])

writeCommonFile(d, filename, decls, imports) ==
    LET usedPackages == UNION {decls[j].GenDecl.refs : j \in 1..Len(decls)}
        used(imp) == pkgNameOf(imp) \in usedPackages
    IN  WriteFile(d, filename,
            [decls |-> WithImports(SelectSeq(imports, used), [j \in 1..Len(decls) |-> decls[j].GenDecl]),
             comments |-> <<>>])

writeTestsToFile(d, filename, tests, imports) ==
    IF Len(tests) = 0 THEN d
    ELSE LET usedPackages == {S_testing} \cup UNION {tests[j].FuncDecl.refs : j \in 1..Len(tests)}
             used(imp) == imp.path = S_testing \/ pkgNameOf(imp) \in usedPackages
         IN  WriteFile(d, filename,
                 [decls |-> WithImports(SelectSeq(imports, used), [j \in 1..Len(tests) |-> tests[j].FuncDecl]),
                  comments |-> <<>>])

(***************************************************************************)
(* Rewrite of the original file.  Each operator returns the file system    *)
(* after the call and whether the call returned an error.                  *)
(***************************************************************************)
Ok(d) == [disk |-> d, err |-> FALSE]

Failed(d) == [disk |-> d, err |-> TRUE]

Names(units) == {units[j].Name : j \in 1..Len(units)}

removeExtractedTests_v1(d, filename, extractedTests) ==
    IF ~Exists(d, filename) THEN Failed(d)
    ELSE
      LET node == d[filename]
          extractedNames == Names(extractedTests)
          keep(decl) == IF decl.kind = "func" THEN decl.name \notin extractedNames
                        ELSE decl.tok # "import"
          newDecls == SelectSeq(node.decls, keep)
          hasRemaining == Len(newDecls) > 0
          comments == filterOrphanedComments(node, extractedNames)
          isImport(decl) == decl.kind = "gen" /\ decl.tok = "import"
          imps == SelectSeq(node.decls, isImport)
          finalDecls == (IF imps # <<>> THEN <<Head(imps)>> ELSE <<>>) \o newDecls
      IN  IF ~hasRemaining \/ Len(newDecls) = 0
          THEN Ok(Remove(d, filename))
          ELSE Ok(WriteFile(d, filename, [decls |-> finalDecls, comments |-> comments]))

removeExtractedTests(d, filename, extractedTests) ==
    IF ~Exists(d, filename) THEN Failed(d)
    ELSE
      LET node == d[filename]
          extractedNames == Names(extractedTests)
          keep(decl) == IF decl.kind = "func" THEN decl.name \notin extractedNames
                        ELSE decl.tok # "import"
          newDecls == SelectSeq(node.decls, keep)
          hasRemaining == Len(newDecls) > 0
          usedImports == findUsedImportsInDecls(newDecls, Imports(node))
      IN  IF ~hasRemaining \/ Len(newDecls) = 0
          THEN Ok(Remove(d, filename))
          ELSE Ok(WriteFile(d, filename,
                     [decls |-> WithImports(usedImports, newDecls), comments |-> node.comments]))

hasPrivateValue(decl) ==
    \E i \in 1..Len(decl.specs) :
        /\ decl.specs[i].spec = "value"
        /\ \E n \in 1..Len(decl.specs[i].names) : ~IsUpper(decl.specs[i].names[n][1])

\* parse is the number of the parse that made the nodes of d[filename]: the
\* pointer of its k-th declaration is <<parse, k>>.
updateOriginalFile(d, filename, extractedFuncs, extractedDecls, parse) ==
    IF ~Exists(d, filename) THEN Failed(d)
    ELSE
      LET node == d[filename]
          extractedFuncNames == Names(extractedFuncs)
          extractedDeclPtrs == {extractedDecls[j].ptr : j \in 1..Len(extractedDecls)}
          keep(k) ==
              LET decl == node.decls[k]
              IN  IF decl.kind = "func" THEN decl.name \notin extractedFuncNames
                  ELSE IF decl.tok = "import" THEN FALSE
                  ELSE <<parse, k>> \notin extractedDeclPtrs /\ hasPrivateValue(decl)
          ks == SelectSeq(Indices(node.decls), keep)
          newDecls == [j \in 1..Len(ks) |-> node.decls[ks[j]]]
          hasRemainingContent == Len(newDecls) > 0
          usedImports == findUsedImportsInDecls(newDecls, Imports(node))
      IN  IF ~hasRemainingContent \/ Len(newDecls) = 0
          THEN Ok(Remove(d, filename))
          ELSE Ok(WriteFile(d, filename,
                     [decls |-> WithImports(usedImports, newDecls), comments |-> node.comments]))

findCorrespondingTestFile(d, filename) ==
    LET testFile == TrimSuffixGo(filename) \o TestGoSuffix
    IN  IF Exists(d, testFile) THEN testFile ELSE <<>>

\* The error of splitTestForFunction is only printed by its caller.
splitTestForFunction(d, testFile, functionName) ==
    LET node == d[testFile]
        sel(k) == /\ node.decls[k].kind = "func"
                  /\ node.decls[k].recv = "none"
                  /\ Contains(node.decls[k].name, functionName)
        ks == SelectSeq(Indices(node.decls), sel)
        matchingTests == [j \in 1..Len(ks) |-> Unit(node, ks[j], StandaloneOf(node, ks[j]), <<>>)]
        outputFile == functionNameToSnakeCase(functionName) \o TestGoSuffix
    IN  IF Len(matchingTests) > 0
        THEN removeExtractedTests(writeTestsToFile(d, outputFile, matchingTests, Imports(node)),
                                  testFile, matchingTests).disk
        ELSE d

(***************************************************************************)
(* The run over one file.                                                  *)
(***************************************************************************)
VARIABLES
    entry,                \* the entry point that processes the file
    filename,             \* base name of the file being processed
    disk,                 \* the directory
    pc,                   \* position in processTestFile / processGoFile
    node,                 \* the ast.File of the first parse
    units,                \* tests / publicFuncs: the extracted functions
    publicDecls,          \* the extracted const/var groups
    hasRemainingContent,  \* second result of extractTestFunctions (test-only revision)
    i,                    \* index of the next unit to write
    usedImports,          \* results of the calls of the import resolvers
    pending,              \* files of the list of the entry point not yet processed
    returned,             \* the error the entry point returned, NoError when none
    faults,               \* the I/O and parse failures met: <<file, step>>
    runs                  \* the directory listings after each call of the entry point

vars == <<entry, filename, disk, pc, node, units, publicDecls, hasRemainingContent, i, usedImports,
          pending, returned, faults, runs>>

\* The state of the loop over the files of the directory.
batchVars == <<pending, returned, faults, runs>>

\* The nil error.
NoError == <<>>

\* The state of a call over a single file: no list, nothing returned yet.
SingleFile ==
    /\ pending = <<>>
    /\ returned = NoError
    /\ faults = {}
    /\ runs = <<>>

TestFileNames == {<<"x", "_", "t", "e", "s", "t", ".", "g", "o">>, <<"a", "_", "t", "e", "s", "t", ".", "g", "o">>}

GoFileNames == {<<"x", ".", "g", "o">>, <<"f", "o", "o", ".", "g", "o">>}

\* The first parse is parse 1, the re-parse of the rewrite is parse 2.
FirstParse == 1

SecondParse == 2

Init ==
    /\ entry \in {"SplitTestFiles", "SplitTestFunctions", "SplitPublicFunctions"}
    /\ filename \in (IF entry = "SplitPublicFunctions" THEN GoFileNames ELSE TestFileNames)
    /\ \E f \in Files(IF entry = "SplitPublicFunctions" THEN GoFileDecls ELSE TestFileDecls) :
           disk = WriteFile(<<>>, filename, f)
    /\ pc = "parse"
    /\ node = EmptyFile
    /\ units = <<>>
    /\ publicDecls = <<>>
    /\ hasRemainingContent = FALSE
    /\ i = 1
    /\ usedImports = <<>>
    /\ SingleFile

\* processTestFile of the test-only revision: parse and extract.
processTestFile_v1_extract ==
    /\ entry = "SplitTestFiles" /\ pc = "parse"
    /\ LET r == extractTestFunctions_v1(disk[filename])
       IN  /\ node' = disk[filename]
           /\ units' = r.tests
           /\ hasRemainingContent' = r.hasRemainingContent
           /\ pc' = IF Len(r.tests) = 0 THEN "done" ELSE "write"
    /\ UNCHANGED <<usedImports, entry, filename, disk, publicDecls, i>>
    /\ UNCHANGED batchVars

\* The output name without the collision rule.
OutputTestFileName_noPrefix(snakeCaseName) == snakeCaseName \o TestGoSuffix

OutputTestFileName(snakeCaseName) ==
    LET outputFileName == snakeCaseName \o TestGoSuffix
    IN  IF outputFileName = filename THEN SplittedPrefix \o outputFileName ELSE outputFileName

\* One iteration of the loop over tests.
processTestFile_v1_write ==
    /\ entry = "SplitTestFiles" /\ pc = "write" /\ i <= Len(units)
    /\ disk' = writeTestFile_v1(disk, OutputTestFileName(testNameToSnakeCase_v1(units[i].Name)),
                                units[i], Imports(node))
    /\ i' = i + 1
    /\ pc' = IF i = Len(units) THEN "update" ELSE "write"
    /\ UNCHANGED <<usedImports, entry, filename, node, units, publicDecls, hasRemainingContent>>
    /\ UNCHANGED batchVars

\* Delete the original, or remove the extracted tests from it.
processTestFile_v1_finish ==
    /\ entry = "SplitTestFiles" /\ pc = "update"
    /\ IF ~hasRemainingContent
       THEN IF Exists(disk, filename)
            THEN disk' = Remove(disk, filename) /\ pc' = "done"
            ELSE disk' = disk /\ pc' = "failed"
       ELSE LET r == removeExtractedTests_v1(disk, filename, units)
            IN  disk' = r.disk /\ pc' = IF r.err THEN "failed" ELSE "done"
    /\ UNCHANGED <<usedImports, entry, filename, node, units, publicDecls, hasRemainingContent, i>>
    /\ UNCHANGED batchVars

\* processTestFile without the return on an empty selection.
processTestFile_extract_noReturn ==
    /\ entry = "SplitTestFunctions" /\ pc = "parse"
    /\ LET tests == extractTestFunctions(disk[filename])
       IN  /\ node' = disk[filename]
           /\ units' = tests
           /\ pc' = IF Len(tests) = 0 THEN "update" ELSE "write"
    /\ UNCHANGED <<usedImports, entry, filename, disk, publicDecls, hasRemainingContent, i>>
    /\ UNCHANGED batchVars

processTestFile_extract ==
    /\ entry = "SplitTestFunctions" /\ pc = "parse"
    /\ LET tests == extractTestFunctions(disk[filename])
       IN  /\ node' = disk[filename]
           /\ units' = tests
           /\ pc' = IF Len(tests) = 0 THEN "done" ELSE "write"
    /\ UNCHANGED <<usedImports, entry, filename, disk, publicDecls, hasRemainingContent, i>>
    /\ UNCHANGED batchVars

processTestFile_write ==
    /\ entry = "SplitTestFunctions" /\ pc = "write" /\ i <= Len(units)
    /\ disk' = writeTestFunction(disk, OutputTestFileName(testNameToSnakeCase(units[i].Name)),
                                 units[i], Imports(node))
    /\ i' = i + 1
    /\ pc' = IF i = Len(units) THEN "update" ELSE "write"
    /\ UNCHANGED <<usedImports, entry, filename, node, units, publicDecls, hasRemainingContent>>
    /\ UNCHANGED batchVars

processTestFile_finish ==
    /\ entry = "SplitTestFunctions" /\ pc = "update"
    /\ LET r == removeExtractedTests(disk, filename, units)
       IN  disk' = r.disk /\ pc' = IF r.err THEN "failed" ELSE "done"
    /\ UNCHANGED <<usedImports, entry, filename, node, units, publicDecls, hasRemainingContent, i>>
    /\ UNCHANGED batchVars

processGoFile_extract ==
    /\ entry = "SplitPublicFunctions" /\ pc = "parse"
    /\ LET publicFuncs == extractPublicFunctions(disk[filename])
           decls == extractPublicDeclarations(disk[filename], FirstParse)
       IN  /\ node' = disk[filename]
           /\ units' = publicFuncs
           /\ publicDecls' = decls
           /\ pc' = IF Len(publicFuncs) = 0 /\ Len(decls) = 0 THEN "done"
                    ELSE IF Len(publicFuncs) > 0 THEN "write"
                    ELSE "common"
    /\ UNCHANGED <<usedImports, entry, filename, disk, hasRemainingContent, i>>
    /\ UNCHANGED batchVars

\* One iteration of the loop over publicFuncs: the function file, then the
\* split of the corresponding test file when there is one.  outputFile, d1
\* and testFile are the locals of the iteration, each computed once.
processGoFile_write ==
    /\ entry = "SplitPublicFunctions" /\ pc = "write" /\ i <= Len(units)
    /\ \E outputFile \in {functionNameToSnakeCase(units[i].Name) \o GoSuffix} :
       \E d1 \in {writePublicFunction(disk, outputFile, units[i], Imports(node))} :
       \E testFile \in {findCorrespondingTestFile(d1, filename)} :
           disk' = IF testFile # <<>> THEN splitTestForFunction(d1, testFile, units[i].Name) ELSE d1
    /\ i' = i + 1
    /\ pc' = IF i < Len(units) THEN "write"
             ELSE IF Len(publicDecls) > 0 THEN "common" ELSE "update"
    /\ UNCHANGED <<usedImports, entry, filename, node, units, publicDecls, hasRemainingContent>>
    /\ UNCHANGED batchVars

processGoFile_common ==
    /\ entry = "SplitPublicFunctions" /\ pc = "common"
    /\ disk' = writeCommonFile(disk, CommonGo, publicDecls, Imports(node))
    /\ pc' = "update"
    /\ UNCHANGED <<usedImports, entry, filename, node, units, publicDecls, hasRemainingContent, i>>
    /\ UNCHANGED batchVars

processGoFile_update ==
    /\ entry = "SplitPublicFunctions" /\ pc = "update"
    /\ LET r == updateOriginalFile(disk, filename, units, publicDecls, SecondParse)
       IN  disk' = r.disk /\ pc' = IF r.err THEN "failed" ELSE "done"
    /\ UNCHANGED <<usedImports, entry, filename, node, units, publicDecls, hasRemainingContent, i>>
    /\ UNCHANGED batchVars

Next ==
    \/ processTestFile_v1_extract
    \/ processTestFile_v1_write
    \/ processTestFile_v1_finish
    \/ processTestFile_extract
    \/ processTestFile_write
    \/ processTestFile_finish
    \/ processGoFile_extract
    \/ processGoFile_write
    \/ processGoFile_common
    \/ processGoFile_update

Spec == Init /\ [][Next]_vars

\* The three entry points on their own.
InitTestFiles == Init /\ entry = "SplitTestFiles"

NextTestFiles ==
    \/ processTestFile_v1_extract
    \/ processTestFile_v1_write
    \/ processTestFile_v1_finish

SpecTestFiles == InitTestFiles /\ [][NextTestFiles]_vars

InitTestFunctions == Init /\ entry = "SplitTestFunctions"

NextTestFunctions ==
    \/ processTestFile_extract
    \/ processTestFile_write
    \/ processTestFile_finish

SpecTestFunctions == InitTestFunctions /\ [][NextTestFunctions]_vars

InitPublic == Init /\ entry = "SplitPublicFunctions"

NextPublic ==
    \/ processGoFile_extract
    \/ processGoFile_write
    \/ processGoFile_common
    \/ processGoFile_update

SpecPublic == InitPublic /\ [][NextPublic]_vars

\* The extractors of extractor.go applied to a parsed file.
InitExtractors ==
    /\ entry = "Extractors"
    /\ filename \in GoFileNames
    /\ \E f \in Files(MethodFileDecls) : disk = WriteFile(<<>>, filename, f)
    /\ pc = "parse"
    /\ node = EmptyFile
    /\ units = <<>>
    /\ publicDecls = <<>>
    /\ hasRemainingContent = FALSE
    /\ i = 1
    /\ usedImports = <<>>
    /\ SingleFile

extractPublic_apply ==
    /\ entry = "Extractors" /\ pc = "parse"
    /\ node' = disk[filename]
    /\ units' = extractPublicMethods(disk[filename])
    /\ publicDecls' = extractPublicDeclarations_withTypes(disk[filename], FirstParse)
    /\ pc' = "done"
    /\ UNCHANGED <<usedImports, entry, filename, disk, hasRemainingContent, i>>
    /\ UNCHANGED batchVars

NextExtractors == extractPublic_apply

SpecExtractors == InitExtractors /\ [][NextExtractors]_vars

(***************************************************************************)
(* The with-struct strategy: writeMethodsWithStructs over the results of   *)
(* the extractors.                                                         *)
(***************************************************************************)
methodNameToSnakeCase(receiverType, methodName) ==
    functionNameToSnakeCase(receiverType) \o <<"_">> \o functionNameToSnakeCase(methodName)

\* The names of the type specs of a GenDecl.
TypeNamesOf(g) ==
    {g.specs[m].names[1] : m \in {n \in 1..Len(g.specs) : g.specs[n].spec = "type"}}

\* methodsByType[typeName]: the methods of the receiver type, in order.
methodsByType(publicMethods, typeName) ==
    SelectSeq(publicMethods, LAMBDA m : m.ReceiverType = typeName)

\* The keys of the map typeDecls, and typeDecls[typeName]: the last
\* declaration of the list with a type spec of that name.
typeDeclKeys(decls) == UNION {TypeNamesOf(decls[j].GenDecl) : j \in 1..Len(decls)}

typeDecls(decls, typeName) ==
    LET js == {j \in 1..Len(decls) : typeName \in TypeNamesOf(decls[j].GenDecl)}
    IN  decls[CHOOSE j \in js : \A h \in js : h <= j].GenDecl

otherDecls(decls) ==
    SelectSeq(decls, LAMBDA x : TypeNamesOf(x.GenDecl) = {})

\* The orders a range over a map with the keys S can take.
Orders(S) == {q \in SeqsUpTo(S, Cardinality(S)) : Range(q) = S}

writePublicMethod(d, file, method, imports) ==
    LET used(imp) == pkgNameOf(imp) \in method.FuncDecl.refs
    IN  WriteFile(d, file,
            [decls |-> WithImports(SelectSeq(imports, used), <<method.FuncDecl>>),
             comments |-> method.StandaloneComments \o method.InlineComments])

writeTypeWithMethods(d, file, typeDecl, methods, imports) ==
    LET usedPackages == typeDecl.refs \cup UNION {methods[j].FuncDecl.refs : j \in 1..Len(methods)}
        used(imp) == pkgNameOf(imp) \in usedPackages
        allComments == Flatten([j \in 1..Len(methods) |->
                           methods[j].StandaloneComments \o methods[j].InlineComments])
    IN  WriteFile(d, file,
            [decls |-> WithImports(SelectSeq(imports, used),
                                   <<typeDecl>> \o [j \in 1..Len(methods) |-> methods[j].FuncDecl]),
             comments |-> allComments])

\* The first loop: every type of typeDecls with its methods, in the order ks.
RECURSIVE writeTypes(_, _, _, _, _)
writeTypes(d, ks, decls, publicMethods, imports) ==
    IF ks = <<>> THEN d
    ELSE writeTypes(writeTypeWithMethods(d, functionNameToSnakeCase(Head(ks)) \o GoSuffix,
                                         typeDecls(decls, Head(ks)),
                                         methodsByType(publicMethods, Head(ks)), imports),
                    Tail(ks), decls, publicMethods, imports)

\* The last loop: the methods of the receiver types of ks, one file each.
RECURSIVE writeOrphans(_, _, _)
writeOrphans(d, ms, imports) ==
    IF ms = <<>> THEN d
    ELSE writeOrphans(writePublicMethod(d,
                          methodNameToSnakeCase(Head(ms).ReceiverType, Head(ms).Name) \o GoSuffix,
                          Head(ms), imports),
                      Tail(ms), imports)

\* ks1, ks2 and ks3 are the orders of the three ranges over the maps.
writeMethodsWithStructs(d, decls, publicMethods, imports, ks1, ks2, ks3) ==
    LET d1 == writeTypes(d, ks1, decls, publicMethods, imports)
        noMethods == SelectSeq(ks2, LAMBDA n : methodsByType(publicMethods, n) = <<>>)
        common == otherDecls(decls) \o
                  [j \in 1..Len(noMethods) |->
                      [GenDecl |-> typeDecls(decls, noMethods[j]), ptr |-> <<0, 0>>, Comments |-> Nil]]
        d2 == IF Len(otherDecls(decls)) > 0
              THEN writeCommonFile(d1, CommonGo, common, imports)
              ELSE d1
        orphanTypes == SelectSeq(ks3, LAMBDA n : n \notin typeDeclKeys(decls))
        orphans == Flatten([j \in 1..Len(orphanTypes) |->
                               methodsByType(publicMethods, orphanTypes[j])])
    IN  writeOrphans(d2, orphans, imports)

\* The write of the with-struct strategy after the extraction.
writeMethodsWithStructs_apply ==
    /\ entry = "Extractors" /\ pc = "done"
    /\ \E ks1 \in Orders(typeDeclKeys(publicDecls)) :
       \E ks2 \in Orders(typeDeclKeys(publicDecls)) :
       \E ks3 \in Orders({units[j].ReceiverType : j \in 1..Len(units)}) :
           disk' = writeMethodsWithStructs(disk, publicDecls, units, Imports(node), ks1, ks2, ks3)
    /\ pc' = "written"
    /\ UNCHANGED <<entry, filename, node, units, publicDecls, hasRemainingContent, i, usedImports>>
    /\ UNCHANGED batchVars

NextWithStruct ==
    \/ extractPublic_apply
    \/ writeMethodsWithStructs_apply

SpecWithStruct == InitExtractors /\ [][NextWithStruct]_vars

\* The import lists: up to MaxImports different specs of the pool.
ImportLists ==
    {t \in SeqsUpTo(PoolImports, MaxImports) : \A a, b \in 1..Len(t) : a # b => t[a] # t[b]}

\* The files handed to the import resolvers.
ImportFiles ==
    {ParseFile((IF imps = <<>> THEN <<>> ELSE <<GenT("import", imps, {})>>) \o ts, {}) :
        imps \in ImportLists, ts \in DeclSeqs(ImportFnDecls, MaxImportDecls)}

NonImportDecls(f) == SelectSeq(f.decls, LAMBDA d : ~(d.kind = "gen" /\ d.tok = "import"))

S_out == <<"o", "u", "t", ".", "g", "o">>

\* The results of the resolvers over the file f: for every declaration the
\* result of both findUsedImports and the import specs of the file
\* writeTestFunction writes for it, and for the declarations together the
\* result of both findUsedImportsInDecls.
Resolve(f) ==
    LET ds == NonImportDecls(f)
        all == Imports(f)
    IN  [single |-> [k \in 1..Len(ds) |->
                        IF ds[k].kind = "func" THEN findUsedImports(ds[k], all) ELSE <<>>],
         singleByName |-> [k \in 1..Len(ds) |->
                        IF ds[k].kind = "func" THEN findUsedImports_byName(ds[k], all) ELSE <<>>],
         written |-> [k \in 1..Len(ds) |->
                        IF ds[k].kind = "func"
                        THEN Imports(writeTestFunction(<<>>, S_out,
                                 [Name |-> ds[k].name, FuncDecl |-> ds[k], index |-> k,
                                  Comments |-> Nil, StandaloneComments |-> <<>>,
                                  InlineComments |-> <<>>], all)[S_out])
                        ELSE <<>>],
         group |-> findUsedImportsInDecls(ds, all),
         groupByName |-> findUsedImportsInDecls_byName(ds, all)]

\* The results of resolvers that range over a map of the imports instead of
\* the slice: the order of a result changes from call to call.
Resolutions_mapOrder(f) ==
    LET Reverse(q) == [j \in 1..Len(q) |-> q[Len(q) + 1 - j]]
    IN
    {Resolve(f),
     [Resolve(f) EXCEPT !.group = Reverse(@), !.groupByName = Reverse(@),
                        !.single = [k \in DOMAIN @ |-> Reverse(@[k])],
                        !.singleByName = [k \in DOMAIN @ |-> Reverse(@[k])]]}

\* The results a call can give: the resolvers range over the slice
\* allImports and use the map usedPackages for lookups only.
Resolutions(f) == {Resolve(f)}

InitImports ==
    /\ entry = "Imports"
    /\ filename \in {S_out}
    /\ \E f \in ImportFiles : disk = WriteFile(<<>>, filename, f)
    /\ pc = "parse"
    /\ node = EmptyFile
    /\ units = <<>>
    /\ publicDecls = <<>>
    /\ hasRemainingContent = FALSE
    /\ i = 1
    /\ usedImports = <<>>
    /\ SingleFile

\* A first call of the resolvers over the parsed file.
resolveImports ==
    /\ entry = "Imports" /\ pc = "parse"
    /\ node' = disk[filename]
    /\ \E r \in Resolutions(disk[filename]) : usedImports' = <<r>>
    /\ pc' = "again"
    /\ UNCHANGED <<entry, filename, disk, units, publicDecls, hasRemainingContent, i>>
    /\ UNCHANGED batchVars

\* A second call with the same arguments.
resolveImports_again ==
    /\ entry = "Imports" /\ pc = "again"
    /\ \E r \in Resolutions(node) : usedImports' = Append(usedImports, r)
    /\ pc' = "done"
    /\ UNCHANGED <<entry, filename, disk, node, units, publicDecls, hasRemainingContent, i>>
    /\ UNCHANGED batchVars

NextImports ==
    \/ resolveImports
    \/ resolveImports_again

SpecImports == InitImports /\ [][NextImports]_vars

(***************************************************************************)
(* The run over a directory: SplitTestFunctions and SplitPublicFunctions   *)
(* list the files of the directory once, then process them in the order of *)
(* the list and return the first error, wrapped with the path of the file. *)
(***************************************************************************)
\* The order of filepath.WalkDir: lexical, '.' before '_' before letters.
Alphabet == <<".", "_">> \o LowerChars

Code(c) == CHOOSE k \in 1..Len(Alphabet) : Alphabet[k] = c

RECURSIVE Less(_, _)
Less(a, b) ==
    IF a = <<>> THEN b # <<>>
    ELSE IF b = <<>> THEN FALSE
    ELSE IF Head(a) = Head(b) THEN Less(Tail(a), Tail(b))
    ELSE Code(Head(a)) < Code(Head(b))

RECURSIVE SortNames(_)
SortNames(S) ==
    IF S = {} THEN <<>>
    ELSE LET m == CHOOSE x \in S : \A y \in S \ {x} : Less(x, y)
         IN  <<m>> \o SortNames(S \ {m})

findTestFiles(d) == SortNames({n \in DOMAIN d : HasSuffix(n, TestGoSuffix)})

findGoFiles(d) ==
    SortNames({n \in DOMAIN d : HasSuffix(n, GoSuffix) /\ ~HasSuffix(n, TestGoSuffix)})

\* Declarations of the test files of a directory.
BatchTestDecls == {
    FuncT(<<"T", "e", "s", "t", "A">>, "none", {S_testing}),
    FuncT(<<"T", "e", "s", "t", "_", "A">>, "none", {S_testing}),
    FuncT(<<"T", "e", "s", "t", "X">>, "none", {S_testing}),
    FuncT(<<"h", "e", "l", "p">>, "none", {})
}

\* Declarations of the .go file of a directory, and of its test file.
BatchGoDecls == {
    FuncT(<<"F", "o", "o">>, "none", {}),
    FuncT(<<"F", "o", "o", "B", "a", "r">>, "none", {}),
    FuncT(<<"b", "a", "r">>, "none", {}),
    GenT("const", <<ValueSpec(<<<<"A">>>>)>>, {})
}

BatchGoTestDecls == {
    FuncT(<<"T", "e", "s", "t", "F", "o", "o">>, "none", {S_testing}),
    FuncT(<<"T", "e", "s", "t", "F", "o", "o", "B", "a", "r">>, "none", {S_testing}),
    FuncT(<<"T", "e", "s", "t", "B", "a", "r">>, "none", {S_testing}),
    FuncT(<<"h", "e", "l", "p">>, "none", {})
}

BatchFiles(D) == {ParseFile(ts, {}) : ts \in DeclSeqs(D, MaxBatchDecls)}

A_test_go == <<"a", "_", "t", "e", "s", "t", ".", "g", "o">>

X_test_go == <<"x", "_", "t", "e", "s", "t", ".", "g", "o">>

\* The directories of test files: a_test.go, x_test.go or both.
TestDirs ==
    {WriteFile(<<>>, n, f) : n \in {A_test_go, X_test_go}, f \in BatchFiles(BatchTestDecls)}
    \cup {WriteFile(WriteFile(<<>>, A_test_go, f), X_test_go, g) :
            f \in BatchFiles(BatchTestDecls), g \in BatchFiles(BatchTestDecls)}

\* The directories of a .go file: x.go or foo.go, with or without its
\* test file.
GoDirs ==
    {WriteFile(<<>>, n, f) : n \in GoFileNames, f \in BatchFiles(BatchGoDecls)}
    \cup {WriteFile(WriteFile(<<>>, n, f), TrimSuffixGo(n) \o TestGoSuffix, g) :
            n \in GoFileNames, f \in BatchFiles(BatchGoDecls), g \in BatchFiles(BatchGoTestDecls)}

BatchEntries == {"SplitTestFunctions", "SplitPublicFunctions"}

\* The list the entry point walks.
findFiles(d) == IF entry = "SplitTestFunctions" THEN findTestFiles(d) ELSE findGoFiles(d)

\* The call of the entry point on a directory: the list is made and the
\* first file is taken.  runs starts with the directory of the call.
InitBatch ==
    /\ entry \in BatchEntries
    /\ disk \in (IF entry = "SplitTestFunctions" THEN TestDirs ELSE GoDirs)
    /\ filename = Head(findFiles(disk))
    /\ pending = Tail(findFiles(disk))
    /\ pc = "parse"
    /\ node = EmptyFile
    /\ units = <<>>
    /\ publicDecls = <<>>
    /\ hasRemainingContent = FALSE
    /\ i = 1
    /\ usedImports = <<>>
    /\ returned = NoError
    /\ faults = {}
    /\ runs = <<disk>>

\* The loop of the entry point goes on past a file that failed.
Split_next_pastFailure ==
    /\ entry \in BatchEntries /\ pc \in {"done", "failed"} /\ pending # <<>>
    /\ filename' = Head(pending)
    /\ pending' = Tail(pending)
    /\ pc' = "parse"
    /\ node' = EmptyFile
    /\ units' = <<>>
    /\ publicDecls' = <<>>
    /\ i' = 1
    /\ UNCHANGED <<entry, disk, hasRemainingContent, usedImports, returned, faults, runs>>

\* The loop of the entry point: the file returned nil, the next file of the
\* list is processed.
Split_next ==
    /\ entry \in BatchEntries /\ pc = "done" /\ pending # <<>>
    /\ filename' = Head(pending)
    /\ pending' = Tail(pending)
    /\ pc' = "parse"
    /\ node' = EmptyFile
    /\ units' = <<>>
    /\ publicDecls' = <<>>
    /\ i' = 1
    /\ UNCHANGED <<entry, disk, hasRemainingContent, usedImports, returned, faults, runs>>

\* The end of the list: return nil.
Split_return ==
    /\ entry \in BatchEntries /\ pc = "done" /\ pending = <<>> /\ runs # <<>>
    /\ pc' = "returned"
    /\ runs' = Append(runs, disk)
    /\ UNCHANGED <<entry, filename, disk, node, units, publicDecls, hasRemainingContent, i,
                   usedImports, pending, returned, faults>>

\* The entry point that returns nil when the file failed.
Split_returnError_swallowed ==
    /\ entry \in BatchEntries /\ pc = "failed" /\ runs # <<>>
    /\ returned' = NoError
    /\ pc' = "returned"
    /\ runs' = Append(runs, disk)
    /\ UNCHANGED <<entry, filename, disk, node, units, publicDecls, hasRemainingContent, i,
                   usedImports, pending, faults>>

\* processGoFile / processTestFile returned an error: the entry point
\* returns it with the path of the file.
Split_returnError ==
    /\ entry \in BatchEntries /\ pc = "failed" /\ runs # <<>>
    /\ returned' = [path |-> filename]
    /\ pc' = "returned"
    /\ runs' = Append(runs, disk)
    /\ UNCHANGED <<entry, filename, disk, node, units, publicDecls, hasRemainingContent, i,
                   usedImports, pending, faults>>

\* A further call of the entry point on the directory the last call left.
Split_again ==
    /\ entry \in BatchEntries /\ pc = "returned" /\ returned = NoError
    /\ Len(runs) <= MaxRuns
    /\ LET list == findFiles(disk)
       IN  IF list = <<>>
           THEN /\ runs' = Append(runs, disk)
                /\ UNCHANGED <<filename, pending, pc, node, units, publicDecls, i>>
           ELSE /\ filename' = Head(list)
                /\ pending' = Tail(list)
                /\ pc' = "parse"
                /\ node' = EmptyFile
                /\ units' = <<>>
                /\ publicDecls' = <<>>
                /\ i' = 1
                /\ UNCHANGED runs
    /\ UNCHANGED <<entry, disk, hasRemainingContent, usedImports, returned, faults>>

\* A step of processTestFile / processGoFile fails (reading or parsing the
\* file, writing an extracted unit, writing common.go, rewriting or
\* deleting the original) and the function returns the error.
processFile_fail ==
    /\ entry \in BatchEntries /\ runs # <<>>
    /\ pc \in {"parse", "write", "common", "update"}
    /\ faults' = faults \cup {<<filename, pc>>}
    /\ pc' = "failed"
    /\ UNCHANGED <<entry, filename, disk, node, units, publicDecls, hasRemainingContent, i,
                   usedImports, pending, returned, runs>>

\* One iteration of the loop over publicFuncs in which splitTestForFunction
\* returns an error (the test file does not parse, the test file of the
\* function cannot be written, or the rewrite of the test file fails): the
\* error is printed as a warning and the loop goes on.
processGoFile_write_testFailed ==
    /\ entry = "SplitPublicFunctions" /\ pc = "write" /\ i <= Len(units) /\ runs # <<>>
    /\ \E outputFile \in {functionNameToSnakeCase(units[i].Name) \o GoSuffix} :
       \E d1 \in {writePublicFunction(disk, outputFile, units[i], Imports(node))} :
           /\ findCorrespondingTestFile(d1, filename) # <<>>
           /\ disk' = d1
    /\ faults' = faults \cup {<<filename, "splittest">>}
    /\ i' = i + 1
    /\ pc' = IF i < Len(units) THEN "write"
             ELSE IF Len(publicDecls) > 0 THEN "common" ELSE "update"
    /\ UNCHANGED <<entry, filename, node, units, publicDecls, hasRemainingContent,
                   usedImports, pending, returned, runs>>

\* SplitTestFunctions over a directory of test files, twice.
InitBatchTests == InitBatch /\ entry = "SplitTestFunctions"

NextBatchTests ==
    \/ processTestFile_extract
    \/ processTestFile_write
    \/ processTestFile_finish
    \/ processFile_fail
    \/ Split_next
    \/ Split_return
    \/ Split_returnError
    \/ Split_again

SpecBatchTests == InitBatchTests /\ [][NextBatchTests]_vars

\* SplitPublicFunctions over a directory of a .go file and its test file.
InitBatchPublic == InitBatch /\ entry = "SplitPublicFunctions"

NextBatchPublic ==
    \/ processGoFile_extract
    \/ processGoFile_write
    \/ processGoFile_write_testFailed
    \/ processGoFile_common
    \/ processGoFile_update
    \/ processFile_fail
    \/ Split_return
    \/ Split_returnError

SpecBatchPublic == InitBatchPublic /\ [][NextBatchPublic]_vars

(***************************************************************************)
(* Vocabulary of the properties.                                           *)
(***************************************************************************)
IsImportDecl(d) == d.kind = "gen" /\ d.tok = "import"

\* The non-import declarations of the original file (node is the first parse).
OrigIdx == {k \in 1..Len(node.decls) : ~IsImportDecl(node.decls[k])}

\* The declarations the extractors selected.
SelectedIdx ==
    {units[j].index : j \in 1..Len(units)} \cup {publicDecls[j].ptr[2] : j \in 1..Len(publicDecls)}

DeclsOf(f) == Range(disk[f].decls)

CommentsOf(f) == Range(disk[f].comments)

OnDisk(d) == \E f \in DOMAIN disk : d \in DeclsOf(f)

Finished == pc = "done"

Extracted == pc # "parse"

\* C1: after a file is processed, every non-import declaration of the
\* original file is in at least one file of the directory.
C1_NoOmission ==
    Finished => \A k \in OrigIdx : OnDisk(node.decls[k])

\* C2: after a file is processed, no declaration of the original file is both
\* in an output file and in the rewritten original.
C2_NoDuplication ==
    (Finished /\ Exists(disk, filename)) =>
        \A k \in OrigIdx :
            ~(/\ node.decls[k] \in DeclsOf(filename)
              /\ \E f \in DOMAIN disk \ {filename} : node.decls[k] \in DeclsOf(f))

\* The comment groups a unit owns: Doc, standalone-owned, inline.
Owned(u) ==
    (IF u.Comments # Nil THEN {u.Comments} ELSE {})
        \cup Range(u.StandaloneComments) \cup Range(u.InlineComments)

\* C3: no comment group is owned (Doc, StandaloneComments, InlineComments) by
\* two distinct selected declarations.
C3_OwnedCommentsDisjoint ==
    /\ \A a, b \in 1..Len(units) : a # b => Owned(units[a]) \cap Owned(units[b]) = {}
    /\ \A a \in 1..Len(units) : \A b \in 1..Len(publicDecls) :
           publicDecls[b].Comments \notin Owned(units[a])

\* Two functions are selected and one of them owns a standalone comment.
C3_Witness ==
    /\ entry = "SplitTestFunctions"
    /\ Len(units) >= 2
    /\ \E a \in 1..Len(units) : Len(units[a].StandaloneComments) > 0

\* The comments of the extracted function fn in the original file: its Doc,
\* its standalone-owned comments, the comments inside its body.
CommentsOfExtracted(u) ==
    Owned(u) \cup {cg \in Range(node.comments) : InBody(cg, u.FuncDecl)}

Rewritten == Finished /\ Len(units) + Len(publicDecls) > 0 /\ Exists(disk, filename)

\* C4: the comment list of the rewritten original holds no comment of an
\* extracted declaration (Doc, standalone-owned, inside its body).
C4_NoExtractedComments ==
    Rewritten =>
        \A j \in 1..Len(units) : CommentsOfExtracted(units[j]) \cap CommentsOf(filename) = {}

\* The comments of a retained declaration d: its Doc, the comments inside it,
\* and the comments that follow it before the next declaration and that no
\* extracted unit owns.
CommentsOfRetained(d) ==
    (IF d.doc # Nil THEN {d.doc} ELSE {})
        \cup {cg \in Range(node.comments) : cg.pos >= d.pos /\ cg.end <= d.end}
        \cup {cg \in Range(node.comments) :
                /\ cg.pos >= d.end
                /\ ~\E j \in 1..Len(node.decls) :
                       node.decls[j].pos >= d.end /\ node.decls[j].pos < cg.pos
                /\ \A j \in 1..Len(node.decls) : node.decls[j].doc # cg
                /\ \A j \in 1..Len(units) : cg \notin Owned(units[j])}

\* C5: the rewritten original keeps every comment of a retained declaration.
C5_RetainedCommentsKept ==
    Rewritten =>
        \A k \in OrigIdx :
            node.decls[k] \in DeclsOf(filename) =>
                CommentsOfRetained(node.decls[k]) \subseteq CommentsOf(filename)

NonImportCount(f) == Cardinality({k \in 1..Len(disk[f].decls) : ~IsImportDecl(disk[f].decls[k])})

\* C6: when every non-import declaration is extracted the original ends
\* deleted, and the original is never written back without declarations.
C6_AllExtractedDeleted ==
    /\ (Finished /\ OrigIdx # {} /\ OrigIdx \subseteq SelectedIdx) => ~Exists(disk, filename)
    /\ Exists(disk, filename) => NonImportCount(filename) > 0

\* The non-selected declarations of the kinds the claim lists: functions
\* without receiver (helper, Benchmark/Example, lowercase test) and
\* const/var/type groups.
ListedNonSelected ==
    {k \in OrigIdx \ SelectedIdx : node.decls[k].kind = "gen" \/ node.decls[k].recv = "none"}

TestEntry == entry \in {"SplitTestFiles", "SplitTestFunctions"}

\* C7: a test file with a qualifying test and a non-selected declaration
\* still exists after processTestFile, holds every non-selected declaration
\* and none of the extracted tests.
C7_PreservedContent ==
    (TestEntry /\ Finished /\ Len(units) > 0 /\ ListedNonSelected # {}) =>
        /\ Exists(disk, filename)
        /\ \A k \in OrigIdx \ SelectedIdx : node.decls[k] \in DeclsOf(filename)
        /\ \A k \in SelectedIdx : node.decls[k] \notin DeclsOf(filename)

\* C8: when nothing is selected the run ends with the directory as it was:
\* only the original file, with its original content.
C8_NothingSelectedUntouched ==
    (Finished /\ Len(units) = 0 /\ Len(publicDecls) = 0) =>
        disk = WriteFile(<<>>, filename, node)

C8_Witness == Finished /\ Len(units) = 0 /\ Len(publicDecls) = 0

\* The name starts with "Test", and what follows the underscores after
\* "Test" is not empty and starts with a character for which ok holds.
TestThenUnderscoresThen(name, ok(_)) ==
    /\ Len(name) > 4
    /\ SubSeq(name, 1, 4) = TestPrefix
    /\ \E j \in 5..Len(name) :
           /\ \A m \in 5..(j - 1) : name[m] = "_"
           /\ name[j] # "_"
           /\ ok(name[j])

NotLower(c) == ~IsLower(c)

SelectedTestIdx == {units[j].index : j \in 1..Len(units)}

IsBareTest(name) ==
    HasPrefix(name, TestPrefix) /\ \A m \in 5..Len(name) : name[m] = "_"

HasBareTest ==
    \E k \in 1..Len(node.decls) :
        node.decls[k].kind = "func" /\ node.decls[k].recv = "none" /\ IsBareTest(node.decls[k].name)

\* C10: a function named "Test" (or "Test" and underscores) is never
\* extracted, makes hasRemainingContent true, and the original file is kept
\* with that function in it.
C10_BareTestKept ==
    (TestEntry /\ Extracted /\ HasBareTest) =>
        /\ \A j \in 1..Len(units) : ~IsBareTest(units[j].Name)
        /\ entry = "SplitTestFiles" => hasRemainingContent
        /\ Exists(disk, filename)
        /\ \A k \in 1..Len(node.decls) :
               (node.decls[k].kind = "func" /\ IsBareTest(node.decls[k].name))
                   => node.decls[k] \in DeclsOf(filename)

\* A file with a bare Test and an extracted test has been rewritten.
C10_Witness ==
    /\ entry = "SplitTestFiles" /\ Finished /\ HasBareTest /\ Len(units) > 0
    /\ ~\E k \in 1..Len(node.decls) : node.decls[k].kind = "gen"

\* C11: in the test-only revision hasRemainingContent is true exactly when
\* the file holds a declaration that is not selected (any declaration counts,
\* the import declaration included).
C11_HasRemainingIffUnselected ==
    (entry = "SplitTestFiles" /\ Extracted) =>
        (hasRemainingContent <=> \E k \in 1..Len(node.decls) : k \notin SelectedTestIdx)

\* A member of the group d (a name of a ValueSpec, the name of a TypeSpec)
\* starts with an uppercase letter.
HasPublicMember(d) ==
    \E m \in 1..Len(d.specs) :
        \E n \in 1..Len(d.specs[m].names) : IsUpper(d.specs[m].names[n][1])

SelectedDeclIdx == {publicDecls[j].ptr[2] : j \in 1..Len(publicDecls)}

\* C12: a const/var/type group is selected by extractPublicDeclarations
\* exactly when one of its members has an uppercase first letter, and a
\* selected group is taken whole.
C12_GroupSelectedIffPublicMember ==
    (entry = "SplitPublicFunctions" /\ Extracted) =>
        /\ \A k \in 1..Len(node.decls) :
               k \in SelectedDeclIdx <=>
                   /\ node.decls[k].kind = "gen"
                   /\ ~IsImportDecl(node.decls[k])
                   /\ HasPublicMember(node.decls[k])
        /\ \A j \in 1..Len(publicDecls) :
               publicDecls[j].GenDecl = node.decls[publicDecls[j].ptr[2]]

\* C13: extractPublicMethods selects exactly the functions with a receiver,
\* an uppercase first letter and a receiver type that is an identifier or a
\* pointer to an identifier, whatever the visibility of that type, and
\* records the name of that type.
C13_MethodsSelectedIff ==
    (entry = "Extractors" /\ Extracted) =>
        /\ \A k \in 1..Len(node.decls) :
               k \in SelectedTestIdx <=>
                   /\ node.decls[k].kind = "func"
                   /\ node.decls[k].recv \in {"ident", "star"}
                   /\ IsUpper(node.decls[k].name[1])
        /\ \A j \in 1..Len(units) : units[j].ReceiverType = units[j].FuncDecl.recvType

\* A method on a pointer to a private type is selected next to a method on
\* a generic receiver that is not.
C13_Witness ==
    /\ entry = "Extractors" /\ Extracted
    /\ \E j \in 1..Len(units) :
           units[j].FuncDecl.recv = "star" /\ ~IsUpper(units[j].ReceiverType[1])
    /\ \E k \in 1..Len(node.decls) :
           /\ node.decls[k].kind = "func"
           /\ node.decls[k].recv \in {"index", "star_index"}
           /\ IsUpper(node.decls[k].name[1])
           /\ k \notin SelectedTestIdx

\* The file name derived from the test that the next write step writes.
DerivedName ==
    (IF entry = "SplitTestFiles" THEN testNameToSnakeCase_v1(units[i].Name)
                                 ELSE testNameToSnakeCase(units[i].Name)) \o TestGoSuffix

\* C14: a write step of processTestFile writes the unit to the derived name,
\* or to "splitted_" + that name when the derived name is the name of the
\* original file, and leaves the original file as it is.
C14_CollisionPrefixed ==
    [][(TestEntry /\ pc = "write") =>
          LET target == IF DerivedName = filename THEN SplittedPrefix \o DerivedName
                        ELSE DerivedName
          IN  /\ target # filename
              /\ Exists(disk', target)
              /\ units[i].FuncDecl \in Range(disk'[target].decls)
              /\ Exists(disk', filename)
              /\ disk'[filename] = disk[filename]]_vars

\* The derived name was the name of the original: the unit is in
\* splitted_a_test.go.
C14_Witness ==
    /\ entry = "SplitTestFiles" /\ pc \in {"update", "done"}
    /\ \E j \in 1..Len(units) : testNameToSnakeCase_v1(units[j].Name) \o TestGoSuffix = filename
    /\ Exists(disk, SplittedPrefix \o filename)

Resolved == entry = "Imports" /\ Len(usedImports) > 0

\* s is t with elements left out: same elements, same order, none twice.
RECURSIVE IsSubsequence(_, _)
IsSubsequence(s, t) ==
    IF s = <<>> THEN TRUE
    ELSE IF t = <<>> THEN FALSE
    ELSE IF Head(s) = Head(t) THEN IsSubsequence(Tail(s), Tail(t))
    ELSE IsSubsequence(s, Tail(t))

\* C15: every result of findUsedImports and of findUsedImportsInDecls is a
\* subsequence of allImports.
C15_ResultIsSubsequence ==
    Resolved =>
        LET r == usedImports[1]
            all == Imports(node)
        IN  /\ \A k \in DOMAIN r.single :
                   IsSubsequence(r.single[k], all) /\ IsSubsequence(r.singleByName[k], all)
            /\ IsSubsequence(r.group, all)
            /\ IsSubsequence(r.groupByName, all)

\* Two imports, a result that leaves the first out and a result that keeps
\* both.
C15_Witness ==
    /\ Resolved
    /\ Len(Imports(node)) = 2
    /\ \E k \in DOMAIN usedImports[1].single :
           usedImports[1].single[k] = <<Imports(node)[2]>>
    /\ \E k \in DOMAIN usedImports[1].singleByName :
           usedImports[1].singleByName[k] = Imports(node)
    /\ Len(usedImports[1].group) = 2

\* C16: the file written for an extracted test function imports exactly the
\* imports of the original whose local name the function references, plus
\* "testing".
C16_WrittenImportsExact ==
    Resolved =>
        LET ds == NonImportDecls(node)
            all == Imports(node)
        IN  \A k \in 1..Len(ds) :
                (ds[k].kind = "func" /\ isSplitTestName(ds[k].name)) =>
                    Range(usedImports[1].written[k]) =
                        {imp \in Range(all) : pkgNameOf(imp) \in ds[k].refs \/ imp.path = S_testing}

\* The names the declarations ds use as operand of a selector.
RefsOf(ds) == UNION {ds[k].refs : k \in 1..Len(ds)}

HasTestStyleDecl(ds) ==
    \E k \in 1..Len(ds) :
        /\ ds[k].kind = "func"
        /\ \/ HasPrefix(ds[k].name, TestPrefix)
           \/ HasPrefix(ds[k].name, BenchmarkPrefix)
           \/ HasPrefix(ds[k].name, ExamplePrefix)

\* C17: findUsedImportsInDecls returns the "testing" import of the file when
\* a declaration of the set is a Test, Benchmark or Example function, and
\* returns a testify import only when the set references that very package
\* (by its local name or by its short name assert, require, suite).
C17_GroupTestingAndTestify ==
    Resolved =>
        LET ds == NonImportDecls(node)
            all == Imports(node)
            g == usedImports[1].group
        IN  /\ HasTestStyleDecl(ds) =>
                   \A j \in 1..Len(all) : all[j].path = S_testing => all[j] \in Range(g)
            /\ \A j \in 1..Len(g) :
                   Contains(g[j].path, S_testify) =>
                       \/ pkgNameOf(g[j]) \in RefsOf(ds)
                       \/ LastPart(g[j].path) \in RefsOf(ds)

\* The import "testing" without alias.
PlainTesting == ImportSpec(S_testing, NoAlias)

BetweenCloserToSecond(cg, k) ==
    /\ k + 1 <= Len(node.decls)
    /\ node.decls[k].kind = "func" /\ node.decls[k + 1].kind = "func"
    /\ cg # node.decls[k + 1].doc
    /\ cg.pos > node.decls[k].rbrace
    /\ cg.end < node.decls[k + 1].pos
    /\ node.decls[k + 1].pos - cg.end < cg.pos - node.decls[k].rbrace

\* C20: a comment between two consecutive functions that is closer to the
\* second is attributed to the second by isFunctionSpecificComment, not to
\* the first, and is not in the rewritten original once the second function
\* is extracted.
C20_CloserCommentGoesWithSecond ==
    (entry = "SplitTestFunctions" /\ Finished) =>
        \A k \in 1..Len(node.decls) : \A cg \in Range(node.comments) :
            BetweenCloserToSecond(cg, k) =>
                /\ isFunctionSpecificComment(cg, k + 1, node.decls)
                /\ ~isFunctionSpecificComment(cg, k, node.decls)
                /\ (k + 1 \in SelectedTestIdx /\ Exists(disk, filename))
                       => cg \notin CommentsOf(filename)

\* cg is inside the body of a function of the file other than declaration k.
InOtherBody(cg, k) ==
    \E j \in 1..Len(node.decls) :
        j # k /\ node.decls[j].kind = "func" /\ InBody(cg, node.decls[j])

\* C21: a comment group that ends at or after the start of a function (in
\* its body, after its closing brace or further below), or that lies in the
\* body of another function, is not function-specific for that function and
\* is not among the standalone comments of its extracted unit.
C21_NotOwnedAtOrAfterStart ==
    /\ \A k \in 1..Len(node.decls) : \A cg \in Range(node.comments) :
           (node.decls[k].kind = "func" /\ (cg.end >= node.decls[k].pos \/ InOtherBody(cg, k)))
               => ~isFunctionSpecificComment(cg, k, node.decls)
    /\ \A j \in 1..Len(units) : \A cg \in Range(units[j].StandaloneComments) :
           cg.end < units[j].FuncDecl.pos /\ ~InOtherBody(cg, units[j].index)

\* An extracted function with a comment after its closing brace.
C21_Witness ==
    /\ entry = "SplitTestFunctions" /\ Finished
    /\ \E j \in 1..Len(units) : \E cg \in Range(node.comments) :
           /\ cg.pos > units[j].FuncDecl.rbrace
           /\ cg \notin Range(units[j].StandaloneComments)

C23_FailureStopsBatch ==
    [][(pc = "failed" \/ returned # NoError) =>
           /\ disk' = disk
           /\ pending' = pending
           /\ filename' = filename
           /\ pc' \in {"failed", "returned"}]_vars

\* a_test.go failed after its extracted files were written, x_test.go is
\* left in the list, and the error was returned.
C23_Witness ==
    /\ entry = "SplitTestFunctions"
    /\ returned = [path |-> A_test_go]
    /\ pending = <<X_test_go>>
    /\ disk # runs[1]
    /\ disk[X_test_go] = runs[1][X_test_go]

\* The test file that corresponds to the .go file being processed.
CompanionTestFile == TrimSuffixGo(filename) \o TestGoSuffix

\* The files of the directory that hold a declaration like t.
FilesWith(t) ==
    {f \in DOMAIN disk :
        \E k \in 1..Len(disk[f].decls) :
            /\ disk[f].decls[k].kind = t.kind
            /\ disk[f].decls[k].name = t.name
            /\ disk[f].decls[k].specs = t.specs}

\* The extracted public functions whose name the name of t contains.
MatchedBy(t) ==
    {j \in 1..Len(units) : t.kind = "func" /\ t.recv = "none" /\ Contains(t.name, units[j].Name)}

\* C24: after SplitPublicFunctions processed x.go without a failure, every
\* function of the original x_test.go whose name contains the name of an
\* extracted public function F is in <snake(F)>_test.go and in no other
\* file, and every other declaration of x_test.go is in x_test.go and in no
\* other file.
C24_TestsFollowTheirFunction ==
    (/\ entry = "SplitPublicFunctions"
     /\ runs # <<>>
     /\ pc \in {"done", "returned"}
     /\ faults = {}
     /\ CompanionTestFile \in DOMAIN runs[1]) =>
        \A k \in 1..Len(runs[1][CompanionTestFile].decls) :
            LET t == runs[1][CompanionTestFile].decls[k]
            IN  /\ \A j \in MatchedBy(t) :
                       FilesWith(t) = {functionNameToSnakeCase(units[j].Name) \o TestGoSuffix}
                /\ MatchedBy(t) = {} => FilesWith(t) = {CompanionTestFile}

\* The units of the file are being written, or the write of one of them
\* failed.
WritingOrWriteFailed ==
    \/ pc \in {"write", "common"}
    \/ /\ pc \in {"failed", "returned"}
       /\ \E step \in {"write", "common"} : <<filename, step>> \in faults

\* C25: while the extracted units of a file are being written, and after
\* the write of one of them failed, the original file is on disk with the
\* content it was parsed from: it is rewritten or deleted only after every
\* unit has been written.
C25_OriginalUntouchedUntilWritten ==
    (runs # <<>> /\ WritingOrWriteFailed) =>
        /\ Exists(disk, filename)
        /\ disk[filename] = node

\* C27: processGoFile writes no extracted function and no common.go to the
\* path of the file being processed, and the file still has the content it
\* was parsed from when updateOriginalFile reads it again.
C27_OutputIsNotTheOriginal ==
    entry = "SplitPublicFunctions" =>
        /\ (pc = "write" /\ i <= Len(units)) =>
               functionNameToSnakeCase(units[i].Name) \o GoSuffix # filename
        /\ pc = "common" => CommonGo # filename
        /\ pc = "update" => (Exists(disk, filename) /\ disk[filename] = node)

\* The path the run writes the extracted function u to.
OutputPath(u) ==
    IF entry = "SplitPublicFunctions"
    THEN functionNameToSnakeCase(u.Name) \o GoSuffix
    ELSE OutputTestFileName(testNameToSnakeCase(u.Name))

\* C26: two different functions extracted from the same file are written to
\* two different paths.
C26_DistinctOutputPaths ==
    \A j, k \in 1..Len(units) :
        j # k => OutputPath(units[j]) # OutputPath(units[k])

\* C28: during the batch, a file of the list that has not been processed
\* yet is on disk with the content it had when the entry point was called.
C28_PendingInputsUntouched ==
    Len(runs) = 1 =>
        \A k \in 1..Len(pending) :
            /\ Exists(disk, pending[k])
            /\ disk[pending[k]] = runs[1][pending[k]]

\* C29: a second call of SplitTestFunctions on the directory the first call
\* left leaves the same set of file names.
C29_SecondRunKeepsFileNames ==
    (entry = "SplitTestFunctions" /\ Len(runs) = 3 /\ returned = NoError) =>
        DOMAIN runs[3] = DOMAIN runs[2]

\* The output files of the with-struct strategy that hold the declaration d.
OutputsWith(d) ==
    {f \in DOMAIN disk \ {filename} : \E k \in 1..Len(disk[f].decls) : disk[f].decls[k] = d}

\* The names the const, var and type specs of the declaration d declare.
DeclaredNames(d) ==
    UNION {Range(d.specs[m].names) : m \in {n \in 1..Len(d.specs) : d.specs[n].spec # "import"}}

\* No name is declared by two declarations of the file (the file compiles).
DeclaredOnce ==
    \A j, k \in 1..Len(node.decls) :
        j # k => DeclaredNames(node.decls[j]) \cap DeclaredNames(node.decls[k]) = {}

\* C30: after writeMethodsWithStructs every extracted public declaration and
\* every public method is in exactly one output file: a group with type
\* specs in the file of its type, with the methods on that type; a group
\* without type specs in common.go; a method on a type that was not
\* extracted in its own <receiver>_<method>.go.
C30_EachDeclarationInOneFile ==
    (entry = "Extractors" /\ pc = "written" /\ DeclaredOnce) =>
        /\ \A j \in 1..Len(publicDecls) :
               LET g == publicDecls[j].GenDecl
               IN  /\ Cardinality(OutputsWith(g)) = 1
                   /\ TypeNamesOf(g) = {} => OutputsWith(g) = {CommonGo}
                   /\ TypeNamesOf(g) # {} =>
                          \E n \in TypeNamesOf(g) :
                              OutputsWith(g) = {functionNameToSnakeCase(n) \o GoSuffix}
        /\ \A j \in 1..Len(units) :
               LET m == units[j]
               IN  OutputsWith(m.FuncDecl) =
                       {IF m.ReceiverType \in typeDeclKeys(publicDecls)
                        THEN functionNameToSnakeCase(m.ReceiverType) \o GoSuffix
                        ELSE methodNameToSnakeCase(m.ReceiverType, m.Name) \o GoSuffix}

====
